---- MODULE Spec2Model ----
(***************************************************************************)
(* Messaging and scheduling substrate: the cancellable priority queue of   *)
(* events (priority_queue.py, event_interface.py), the Service and its     *)
(* worker (service.py, exception_threading.py, test_service.py), the       *)
(* communication port (communication_port.py) and service discovery        *)
(* (discovery.py).                                                         *)
(***************************************************************************)
EXTENDS Integers, Sequences, FiniteSets, TLC

\* ------------------------------------------------------------------ bounds
\* Number of AbstractEvent objects a run constructs.
MaxEvents == 3
\* date_time values are 1..MaxTime.
MaxTime == 2

EventIds == 1..MaxEvents
Times == 1..MaxTime
None == "None"

VARIABLES
    \* AbstractEvent objects, by event: AbstractEvent.date_time and _cancelled.
    date_time,
    cancelled,
    \* "StopEvent" or "DummyEvent" (test_service.py), by event.
    kind,
    \* PriorityQueue._pq: the heapq list, a sequence of events.
    pq,
    \* where each event is: "none" (not handed over yet), "queued", "popped".
    where,
    \* the last queue operation and what it returned or raised.
    ret,
    \* date_time of the event the last successful pop returned (0: none yet).
    lastPop,
    \* TRUE once an event was pushed with a date_time below lastPop.
    late

pqvars == <<date_time, cancelled, kind, pq, where, ret, lastPop, late>>

VARIABLES
    \* Service._service_mode: "ASYNC" or "SYNC".
    service_mode,
    \* the Service's thread: "created", "running" (alive) or "stopped".
    thread,
    \* ExceptionThread.exc: None, or the exception run() caught.
    exc,
    \* the event the worker has popped and not processed yet (0: none).
    held,
    \* by event: "no" while its execute has not begun, else the value of its
    \* cancelled flag when execute began: "live" or "cancelled".
    ran

svcvars == <<service_mode, thread, exc, held, ran>>

VARIABLES
    \* CommunicationPort objects, by port: the fields of __init__.
    port,
    \* CommunicationPort.task, by port: the ListenThread or ReceiveThread.
    task,
    \* pickled requests handed to a connected REQ socket and not received yet.
    wire,
    \* pickled replies sent by a listener and not received yet.
    replies,
    \* the last port operation: its arguments, what it raised and the
    \* callback invocations it made, in order.
    out

portvars == <<port, task, wire, replies, out>>

VARIABLES
    \* DiscoveryServer._data: the registry, a sequence of service entries.
    services_data,
    \* the last discovery call (DiscoveryServer.receive or
    \* DiscoveryDelegate.connect_to_service) and its outcome.
    disco

discovars == <<services_data, disco>>

VARIABLES
    \* ExceptionThread objects, by thread: its state ("created", "running",
    \* "stopped"), what its run body raised, exc, and what join() raised.
    workers

thrvars == <<workers>>

VARIABLES
    \* PriorityQueue._pq_lock: the thread that holds it, or None.
    pq_lock,
    \* by thread: the queue operation it is inside of and the number of
    \* iterations of its loop it has made.
    frame,
    \* by event: how many times pop() has returned it.
    returned

lockvars == <<pq_lock, frame, returned>>

\* ------------------------------------------------------ event_interface.py
\* AbstractEvent.__lt__: events compare by date_time alone.
lt(a, b) == date_time[a] < date_time[b]

\* ---------------------------------------------------------------- heapq
\* heapq._siftdown(heap, startpos, pos) with newitem carried along; positions
\* are 1-based here, so the parent of pos is pos \div 2.
RECURSIVE siftdown(_, _, _, _)
siftdown(heap, startpos, pos, newitem) ==
    IF pos > startpos /\ lt(newitem, heap[pos \div 2])
    THEN siftdown([heap EXCEPT ![pos] = heap[pos \div 2]], startpos, pos \div 2, newitem)
    ELSE [heap EXCEPT ![pos] = newitem]

\* the while loop of heapq._siftup: bubble the smaller child up until a leaf.
RECURSIVE siftup_loop(_, _, _)
siftup_loop(heap, pos, newitem) ==
    LET endpos == Len(heap)
        childpos == 2 * pos
        rightpos == childpos + 1
        c == IF rightpos <= endpos /\ ~lt(heap[childpos], heap[rightpos])
             THEN rightpos ELSE childpos
    IN  IF childpos <= endpos
        THEN siftup_loop([heap EXCEPT ![pos] = heap[c]], c, newitem)
        ELSE siftdown(heap, 1, pos, newitem)

siftup(heap, pos) == siftup_loop(heap, pos, heap[pos])

\* heappush without the sift: the new item stays at the end of the list.
heappush_nosift(heap, item) == Append(heap, item)

\* heapq.heappush(heap, item)
heappush(heap, item) ==
    siftdown(Append(heap, item), 1, Len(heap) + 1, item)

\* list.pop() in place of heappop: the last item of the list.
heappop_last(heap) ==
    [item |-> heap[Len(heap)], heap |-> SubSeq(heap, 1, Len(heap) - 1)]

\* heapq.heappop(heap) on a non-empty heap: the item returned and the heap left.
heappop(heap) ==
    LET lastelt == heap[Len(heap)]
        rest == SubSeq(heap, 1, Len(heap) - 1)
    IN  IF rest # <<>>
        THEN [item |-> heap[1], heap |-> siftup([rest EXCEPT ![1] = lastelt], 1)]
        ELSE [item |-> lastelt, heap |-> rest]

\* ------------------------------------------------------- priority_queue.py
\* pop without the `while event.cancelled` loop.
pop_first(heap, discarded) ==
    IF heap = <<>>
    THEN [raised |-> "IndexError", event |-> 0, heap |-> heap, discarded |-> discarded]
    ELSE [raised |-> None, event |-> heappop(heap).item, heap |-> heappop(heap).heap,
          discarded |-> discarded]

\* PriorityQueue.pop: heappop until an event that is not cancelled; heappop on
\* the empty list raises IndexError.
RECURSIVE pop(_, _)
pop(heap, discarded) ==
    IF heap = <<>>
    THEN [raised |-> "IndexError", event |-> 0, heap |-> heap, discarded |-> discarded]
    ELSE LET r == heappop(heap)
         IN  IF cancelled[r.item]
             THEN pop(r.heap, discarded \cup {r.item})
             ELSE [raised |-> None, event |-> r.item, heap |-> r.heap,
                   discarded |-> discarded]

\* empty as "the list is empty", cancelled entries counted as content.
empty_len(heap) == heap = <<>>

\* PriorityQueue.empty
empty(heap) == \A i \in 1..Len(heap) : cancelled[heap[i]]

\* The key callables handed to cancel, contains and get.
Keys ==
    [k : {"all"}, t : {0}] \cup [k : {"before"}, t : Times]
        \cup [k : {"live"}, t : {0}]

\* key(e)
Holds(key, e) ==
    CASE key.k = "all" -> TRUE
      [] key.k = "before" -> date_time[e] <= key.t
      [] key.k = "live" -> ~cancelled[e]

\* a scan that stops at the first event the key holds for.
RECURSIVE scan_first(_, _)
scan_first(heap, key) ==
    IF heap = <<>> THEN <<>>
    ELSE IF Holds(key, Head(heap)) THEN <<Head(heap)>>
    ELSE scan_first(Tail(heap), key)

\* the `for e in self._pq: if key(e)` scan of cancel / get: events in list order.
RECURSIVE scan(_, _)
scan(heap, key) ==
    IF heap = <<>> THEN <<>>
    ELSE (IF Holds(key, Head(heap)) THEN <<Head(heap)>> ELSE <<>>)
             \o scan(Tail(heap), key)

\* a contains that skips the cancelled events.
contains_live(heap, key) ==
    \E i \in 1..Len(heap) : ~cancelled[heap[i]] /\ Holds(key, heap[i])

\* PriorityQueue.contains
contains(heap, key) == \E i \in 1..Len(heap) : Holds(key, heap[i])

Range(s) == {s[i] : i \in 1..Len(s)}

NoRet == [op |-> "none"]

\* ------------------------------------------------------------------ actions
\* PriorityQueue.push of an event not pushed before; c: the caller called
\* AbstractEvent.cancel on it before pushing it.
Push(e, c) ==
    /\ where[e] = "none"
    /\ \A f \in EventIds : f < e => where[f] # "none"
    /\ cancelled' = [cancelled EXCEPT ![e] = c]
    /\ pq' = heappush(pq, e)
    /\ where' = [where EXCEPT ![e] = "queued"]
    /\ ret' = [op |-> "push", event |-> e]
    /\ late' = (late \/ date_time[e] < lastPop)
    /\ UNCHANGED <<date_time, kind, lastPop>>

\* PriorityQueue.pop
Pop ==
    LET r == pop(pq, {})
    IN  /\ pq' = r.heap
        /\ where' = [e \in EventIds |->
                        IF e = r.event \/ e \in r.discarded THEN "popped" ELSE where[e]]
        /\ ret' = [op |-> "pop", raised |-> r.raised, event |-> r.event,
                   discarded |-> r.discarded, after |-> lastPop]
        /\ lastPop' = IF r.raised = None THEN date_time[r.event] ELSE lastPop
        /\ UNCHANGED <<date_time, cancelled, kind, late>>

\* an empty() that drops the cancelled events it meets.
Empty_discarding ==
    /\ ret' = [op |-> "empty", val |-> empty(pq)]
    /\ pq' = SelectSeq(pq, LAMBDA e : ~cancelled[e])
    /\ where' = [e \in EventIds |->
                    IF e \in Range(pq) /\ cancelled[e] THEN "popped" ELSE where[e]]
    /\ UNCHANGED <<date_time, cancelled, kind, lastPop, late>>

\* PriorityQueue.empty
Empty ==
    /\ ret' = [op |-> "empty", val |-> empty(pq)]
    /\ UNCHANGED <<date_time, cancelled, kind, pq, where, lastPop, late>>

\* PriorityQueue.cancel
Cancel(key) ==
    LET le == scan(pq, key)
    IN  /\ cancelled' = [e \in EventIds |-> cancelled[e] \/ e \in Range(le)]
        /\ ret' = [op |-> "cancel", key |-> key, val |-> le,
                   fresh |-> {e \in Range(le) : ~cancelled[e]},
                   again |-> ret.op = "cancel" /\ ret.key = key]
        /\ UNCHANGED <<date_time, kind, pq, where, lastPop, late>>

\* PriorityQueue.contains
Contains(key) ==
    /\ ret' = [op |-> "contains", key |-> key, val |-> contains(pq, key)]
    /\ UNCHANGED <<date_time, cancelled, kind, pq, where, lastPop, late>>

\* PriorityQueue.get
Get(key) ==
    /\ ret' = [op |-> "get", key |-> key, val |-> scan(pq, key)]
    /\ UNCHANGED <<date_time, cancelled, kind, pq, where, lastPop, late>>

\* PriorityQueue.__init__, and the events the callers will construct.
InitQueue ==
    /\ date_time \in [EventIds -> Times]
    /\ cancelled = [e \in EventIds |-> FALSE]
    /\ pq = <<>>
    /\ where = [e \in EventIds |-> "none"]
    /\ ret = NoRet
    /\ lastPop = 0
    /\ late = FALSE

\* Service.__init__ / ExceptionThread.__init__
InitService(mode) ==
    /\ service_mode = mode
    /\ thread = "created"
    /\ exc = None
    /\ held = 0
    /\ ran = [e \in EventIds |-> "no"]

\* ------------------------------------------------------ communication_port.py
\* USE_PORT, the module-level transport switch.
USE_PORT == "zmq"

PortIds == {"port_a", "port_b"}

\* CommunicationMode
FUNCTION_CALL_SEND == "FUNCTION_CALL_SEND"
FUNCTION_CALL_RECV == "FUNCTION_CALL_RECV"
TCP_SEND == "TCP_SEND"
TCP_RECV == "TCP_RECV"
CommunicationMode == {FUNCTION_CALL_SEND, FUNCTION_CALL_RECV, TCP_SEND, TCP_RECV}

\* Payloads are dicts, written as sequences of <<key, value>> pairs; NoData
\* stands for the None of a data field that holds no dict.
NoData == << <<"None", 0>> >>
Payloads == { <<>>, << <<"x", 1>> >> }

\* bool(payload), as `while not self._send_message` reads it.
truthy(d) == d # NoData /\ d # <<>>

\* pickle.dumps / pickle.loads
dumps(d) == [pickled |-> d]
loads(b) == b.pickled

\* Transport addresses "tcp://<host>:<port>" as parse("tcp://{target}:{port}")
\* splits them: host is the literal localhost (local) or dot-separated numbers.
Addresses ==
    { [local |-> TRUE, octets |-> <<>>, port |-> 5668],
      [local |-> FALSE, octets |-> <<256, 0, 0, 1>>, port |-> 5668] }

\* ListenThread._check_address
check_address(a) ==
    \/ a.local
    \/ Len(a.octets) = 4 /\ \A i \in 1..Len(a.octets) : a.octets[i] \in 0..255

\* What a target_port holds: None, a CommunicationPort or an address string.
NoTarget == [is |-> "None"]
PortRef(p) == [is |-> "CommunicationPort", ref |-> p]
AddressStr(a) == [is |-> "str", address |-> a]
\* The targets a port of each mode is given: a sending port any port or an
\* address, a receiving port the other port or an address.
Targets(p, mode) ==
    CASE mode = FUNCTION_CALL_SEND ->
            {PortRef(q) : q \in PortIds}
                \cup {AddressStr(a) : a \in {b \in Addresses : b.local}}
      [] mode = TCP_SEND ->
            {AddressStr(a) : a \in Addresses} \cup {PortRef(q) : q \in PortIds \ {p}}
      [] OTHER -> {PortRef(q) : q \in PortIds \ {p}}
                      \cup {AddressStr(a) : a \in {b \in Addresses : b.local}}

\* The collaborators' receive callbacks, callable as (data, respond_function=None):
\* what they do with the respond function they are given.
Handlers == {"silent", "reply", "reply_twice"}
NReplies(h) == CASE h = "silent" -> 0 [] h = "reply" -> 1 [] h = "reply_twice" -> 2

\* the i-th payload a callback hands to its respond function.
Reply(i) == << <<"y", i>> >>

\* the endpoint of a socket that was not connected.
NoAddress == [local |-> FALSE, octets |-> <<>>, port |-> 0]

\* CommunicationPort._start_sending: the socket of a TCP_SEND port; _listening
\* is set on both transports.
start_sending == [soc |-> "open", listening |-> USE_PORT \in {"zmq", "socket"}]

NoTask == [thread |-> "None"]
NoOut == [op |-> "none"]

\* ListenThread.__init__
ListenThread(address) ==
    [thread |-> "ListenThread", state |-> "created", address |-> address,
     data |-> <<>>, recv |-> FALSE, send_message |-> NoData, peer |-> "None"]

\* ReceiveThread.__init__ and start()
ReceiveThread ==
    [thread |-> "ReceiveThread", state |-> "waiting", data |-> NoData, recv |-> FALSE]

\* CommunicationPort.__init__
NewPort(mode, address) ==
    [mode |-> mode,
     target_address |-> address,
     target_port |-> NoTarget,
     receive_callback |-> None,
     receive_callback_tcp |-> None,
     listening |-> IF mode = TCP_SEND THEN start_sending.listening ELSE FALSE,
     soc |-> IF mode = TCP_SEND THEN start_sending.soc ELSE "None",
     endpoint |-> NoAddress,
     recv |-> FALSE]

\* an is_ready that does not compare the port's own mode on the reference side.
is_ready_any_mode(p) ==
    LET port_is_ref == port[p].target_port.is = "CommunicationPort"
        tcp_ready == TCP_SEND = port[p].mode /\ port[p].listening
    IN  port_is_ref \/ tcp_ready

\* CommunicationPort.is_ready
is_ready(p) ==
    LET port_is_ref == port[p].target_port.is = "CommunicationPort"
        ref_ready == port_is_ref /\ FUNCTION_CALL_SEND = port[p].mode
        tcp_ready == TCP_SEND = port[p].mode /\ port[p].listening
    IN  ref_ready \/ tcp_ready

\* The result of a call: what it raised, the callback invocations it made and
\* the tasks as it left them.
Returned(calls, tk) == [raised |-> None, calls |-> calls, task |-> tk]
Raised(x, calls, tk) == [raised |-> x, calls |-> calls, task |-> tk]

\* The respond functions a callback is given: a port's bound receive or
\* receive_tcp, or none.
NoRespond == [fn |-> "None"]
Respond(fn, p) == [fn |-> fn, port |-> p]

RECURSIVE callback(_, _, _, _, _)
RECURSIVE respond_loop(_, _, _, _)
RECURSIVE receive(_, _, _, _)
RECURSIVE receive_tcp(_, _, _)

\* receive that forgets the sending side of a function call when no respond
\* function is given.
receive_recv_only(q, data, respond, tk) ==
    IF respond.fn # "None"
    THEN callback(q, "receive_callback", data, respond, tk)
    ELSE IF port[q].mode \in {TCP_SEND, FUNCTION_CALL_RECV}
         THEN callback(q, "receive_callback", data, respond, tk)
         ELSE Returned(<<>>, tk)

\* CommunicationPort.receive(data, respond_function)
receive(q, data, respond, tk) ==
    IF respond.fn # "None"
    THEN callback(q, "receive_callback", data, respond, tk)
    ELSE IF port[q].mode \in {TCP_SEND, FUNCTION_CALL_RECV, FUNCTION_CALL_SEND}
         THEN callback(q, "receive_callback", data, respond, tk)
         ELSE Returned(<<>>, tk)

\* CommunicationPort.receive_tcp(data)
receive_tcp(q, data, tk) ==
    IF port[q].mode = TCP_RECV
    THEN LET r == callback(q, "receive_callback_tcp", data, NoRespond, tk)
         IN  IF r.raised # None THEN r
             ELSE Returned(r.calls,
                           [r.task EXCEPT ![q].send_message = data])
    ELSE Returned(<<>>, tk)

\* respond_function(data)
respond_call(respond, data, tk) ==
    IF respond.fn = "receive"
    THEN receive(respond.port, data, NoRespond, tk)
    ELSE receive_tcp(respond.port, data, tk)

\* the callback h calling its respond function for the i-th time and on.
respond_loop(h, respond, i, acc) ==
    IF i > NReplies(h) \/ acc.raised # None THEN acc
    ELSE LET r == respond_call(respond, Reply(i), acc.task)
         IN  respond_loop(h, respond, i + 1,
                          [raised |-> r.raised, calls |-> acc.calls \o r.calls,
                           task |-> r.task])

\* self._receive_callback(data, respond_function=...) or
\* self._receive_callback_tcp(data): calling None raises TypeError.
callback(q, which, data, respond, tk) ==
    LET h == port[q][which]
        entry == [port |-> q, cb |-> which, data |-> data,
                  respond |-> respond.fn # "None"]
    IN  IF h = None THEN Raised("TypeError", <<>>, tk)
        ELSE IF respond.fn = "None" THEN Returned(<<entry>>, tk)
        ELSE respond_loop(h, respond, 1, Returned(<<entry>>, tk))

\* Two ports as constructed, of every pair of modes (port_a's mode not after
\* port_b's in the order of the enumeration); a TCP_RECV port is given its
\* address, the other ports leave target_address at its default.
ModeOrder(m) ==
    CASE m = FUNCTION_CALL_SEND -> 0 [] m = FUNCTION_CALL_RECV -> 1
      [] m = TCP_SEND -> 2 [] m = TCP_RECV -> 3

InitPorts ==
    /\ \E m \in [PortIds -> CommunicationMode],
          a \in [PortIds -> Addresses \cup {NoAddress}] :
          /\ ModeOrder(m["port_a"]) <= ModeOrder(m["port_b"])
          /\ \A p \in PortIds : m[p] = TCP_RECV <=> a[p] \in Addresses
          /\ port = [p \in PortIds |-> NewPort(m[p], a[p])]
          /\ task = [p \in PortIds |->
                        IF m[p] = TCP_RECV THEN ListenThread(a[p]) ELSE NoTask]
    /\ wire = {}
    /\ replies = {}
    /\ out = NoOut

\* the port pair of test_simple_direct_call, just constructed.
IdlePorts ==
    /\ port = [p \in PortIds |->
                  NewPort(IF p = "port_a" THEN FUNCTION_CALL_SEND
                          ELSE FUNCTION_CALL_RECV, NoAddress)]
    /\ task = [p \in PortIds |-> NoTask]
    /\ wire = {}
    /\ replies = {}
    /\ out = NoOut

\* ------------------------------------------------------------ discovery.py
\* ServiceType and DiscoveryError
ServiceType == {"CLIENT", "ALLOCATOR", "SCHEDULER", "ELECTRICAL_NETWORK"}
SERVICE_UNKNOWN == "SERVICE_UNKNOWN"
MISSING_KEY_IN_REQUEST == "MISSING_KEY_IN_REQUEST"

\* Number of entries a registry holds at most.
MaxServices == 2

\* DiscoveryServer.make_service_data; dicts are records, an argument left at
\* None is None (NoAddress for the address string).
make_service_data(service_type, service_reference, service_tcp_port, service_id) ==
    IF service_type = None THEN [raised |-> "ValueError"]
    ELSE IF service_tcp_port # NoAddress /\ service_reference # None
    THEN [raised |-> "ValueError"]
    ELSE [raised |-> None,
          dico |->
            IF service_reference # None
            THEN IF service_id # None
                 THEN [service_type |-> service_type,
                       service_reference |-> service_reference,
                       service_id |-> service_id]
                 ELSE [service_type |-> service_type,
                       service_reference |-> service_reference]
            ELSE IF service_id # None
                 THEN [service_type |-> service_type,
                       service_tcp_port |-> service_tcp_port,
                       service_id |-> service_id]
                 ELSE [service_type |-> service_type,
                       service_tcp_port |-> service_tcp_port]]

\* The types, references, addresses and ids the registered services have.
RegisteredTypes == {"ALLOCATOR", "SCHEDULER"}
References == {"port_b"}
LocalAddresses == {a \in Addresses : a.local}
ServiceIds == {None, "id1"}

\* The entries of a registry: those make_service_data builds with one of the
\* two locators, and the hand-written one of TestDiscovery.setUp (key tcp_port).
Entries ==
    {make_service_data(t, r, NoAddress, i).dico :
        t \in RegisteredTypes, r \in References, i \in ServiceIds}
    \cup {make_service_data(t, None, a, i).dico :
        t \in RegisteredTypes, a \in LocalAddresses, i \in ServiceIds}
    \cup {[service_type |-> t, tcp_port |-> a] :
        t \in RegisteredTypes, a \in LocalAddresses}

\* The requests a discovery server is sent.
Requests == {[service_type |-> t] : t \in ServiceType} \cup {[test |-> "ok"]}

\* pydash's matches predicate of a dict: every key of source is in obj with
\* an equal value.
is_match(obj, source) ==
    \A k \in DOMAIN source : k \in DOMAIN obj /\ obj[k] = source[k]

\* what pydash.find returns when nothing matches.
NoEntry == [none |-> TRUE]

RECURSIVE find_last(_, _, _)
\* a find that keeps looking after a match and returns the last one.
find_last(collection, source, i) ==
    IF i > Len(collection) THEN NoEntry
    ELSE LET later == find_last(collection, source, i + 1)
         IN  IF later # NoEntry THEN later
             ELSE IF is_match(collection[i], source) THEN collection[i]
             ELSE NoEntry

RECURSIVE find(_, _, _)
\* pydash.find(collection, source): the first element, from index i on, that
\* matches source.
find(collection, source, i) ==
    IF i > Len(collection) THEN NoEntry
    ELSE IF is_match(collection[i], source) THEN collection[i]
    ELSE find(collection, source, i + 1)

\* DiscoveryServer.receive(data, respond_function): what it raised and the
\* dicts it handed to respond_function, in order.
DiscoveryServer_receive(data) ==
    IF "service_type" \notin DOMAIN data
    THEN [raised |-> None, calls |-> << [error |-> MISSING_KEY_IN_REQUEST] >>]
    ELSE LET res == find(services_data, [service_type |-> data.service_type], 1)
         IN  IF res = NoEntry
             THEN [raised |-> None, calls |-> << [error |-> SERVICE_UNKNOWN] >>]
             ELSE [raised |-> None, calls |-> << res >>]

NoDisco == [op |-> "none"]

\* a request arrives at the discovery server with a respond function that
\* records what it is given.
ServerReceive(data) ==
    /\ disco' = [op |-> "receive", request |-> data,
                 raised |-> DiscoveryServer_receive(data).raised,
                 calls |-> DiscoveryServer_receive(data).calls]
    /\ UNCHANGED services_data

RECURSIVE SeqsUpTo(_, _)
\* the sequences over S of length at most n.
SeqsUpTo(S, n) ==
    IF n = 0 THEN {<<>>}
    ELSE SeqsUpTo(S, n - 1)
         \cup {Append(q, x) : q \in {r \in SeqsUpTo(S, n - 1) : Len(r) = n - 1}, x \in S}

\* DiscoveryServer.__init__
InitDisco ==
    /\ services_data \in SeqsUpTo(Entries, MaxServices)
    /\ disco = NoDisco

\* no discovery server in the run.
IdleDisco ==
    /\ services_data = <<>>
    /\ disco = NoDisco

\* ---------------------------------------------------- exception_threading.py
\* Number of ExceptionThread objects.
MaxWorkers == 2
WorkerIds == 1..MaxWorkers

\* ExceptionThread.__init__
NewThread == [state |-> "created", body |-> None, exc |-> None, joined |-> "no"]

\* the ExceptionThreads as constructed.
IdleThreads == workers = [t \in WorkerIds |-> NewThread]

\* ----------------------------------------------- priority_queue.py, threads
\* The threads that call the queue: the caller of the service and its worker.
Threads == {"MainThread", "ServiceThread"}

NoKey == [k |-> "none", t |-> 0]
IdleFrame == [pc |-> "idle", op |-> "none", event |-> 0, key |-> NoKey, i |-> 0]

\* PriorityQueue.__init__: the lock is free and no thread is in an operation.
IdleLock ==
    /\ pq_lock = None
    /\ frame = [t \in Threads |-> IdleFrame]
    /\ returned = [e \in EventIds |-> 0]

\* everything but the queue, the service and the ports, as constructed.
IdleOthers == IdleDisco /\ IdleThreads /\ IdleLock

InitPQ ==
    /\ InitQueue
    /\ kind = [e \in EventIds |-> "DummyEvent"]
    /\ InitService("ASYNC")
    /\ IdlePorts
    /\ IdleOthers

vars == <<pqvars, svcvars, portvars, discovars, thrvars, lockvars>>

\* ------------------------------------------------------- queue properties
PoppedOk(r) == r.op = "pop" /\ r.raised = None

\* C1: an event returned by pop() does not have its cancelled flag set at the
\* moment pop returns it.
C1_PopNeverReturnsCancelled ==
    PoppedOk(ret) => ~cancelled[ret.event]

\* a pop that discarded a cancelled event at the head and returned a live one.
C1_Witness ==
    PoppedOk(ret) /\ ret.discarded # {}

\* C2 as stated: the timestamps returned by successive successful pops are
\* non-decreasing, whatever pushes come between the pops.
C2_PopsNonDecreasing ==
    (PoppedOk(ret) /\ ret.after # 0) => date_time[ret.event] >= ret.after

\* C2 amended: as long as no event was pushed with a timestamp below that of
\* the event the latest pop had returned, the timestamps returned by
\* successive successful pops are non-decreasing.
C2_PopsNonDecreasingUnlessLatePush ==
    (PoppedOk(ret) /\ ret.after # 0 /\ ~late) => date_time[ret.event] >= ret.after

\* a second successful pop, later in time than the first, that skipped a
\* cancelled event, with no late push.
C2_Witness ==
    /\ PoppedOk(ret) /\ ret.after # 0 /\ ~late
    /\ date_time[ret.event] > ret.after
    /\ ret.discarded # {}

\* C3: when the queue holds a non-cancelled event, pop() returns an event whose
\* timestamp is minimal among the non-cancelled events of the queue, removes
\* exactly that event and the cancelled events met at the head before it, and
\* leaves every other event in the queue.
C3_PopReturnsEarliestLive ==
    [][(ret'.op = "pop" /\ ~empty(pq)) =>
          /\ ret'.raised = None
          /\ ret'.event \in Range(pq) /\ ~cancelled[ret'.event]
          /\ \A e \in Range(pq) : ~cancelled[e] => date_time[ret'.event] <= date_time[e]
          /\ \A d \in ret'.discarded :
                 d \in Range(pq) /\ cancelled[d] /\ date_time[d] <= date_time[ret'.event]
          /\ Range(pq') = Range(pq) \ ({ret'.event} \cup ret'.discarded)
          /\ Len(pq') = Len(pq) - 1 - Cardinality(ret'.discarded)
          /\ cancelled' = cancelled]_vars

\* a pop that returned a live event, discarded a cancelled one and left a
\* third event in the queue.
C3_Witness ==
    PoppedOk(ret) /\ ret.discarded # {} /\ pq # <<>>

\* C4: pop() raises IndexError exactly when no non-cancelled event is in the
\* queue, that is exactly when empty() would return true: a pop right after
\* empty() returned false succeeds, and a pop on a queue of cancelled events
\* only raises instead of returning one of them.
C4_PopRaisesIffEmpty ==
    [][ret'.op = "pop" =>
          /\ (ret'.raised = "IndexError") <=> empty(pq)
          /\ (ret.op = "empty" /\ ~ret.val) => ret'.raised = None
          /\ ret'.raised = "IndexError" => ret'.event \notin Range(pq)]_vars

\* a pop that raised on a queue that held only cancelled events.
C4_Witness ==
    ret.op = "pop" /\ ret.raised = "IndexError" /\ ret.discarded # {}

\* C5 as stated: the second of two cancel calls in a row with the same
\* predicate cancels no new event and returns an empty collection.
C5_SecondCancelReturnsEmpty ==
    (ret.op = "cancel" /\ ret.again) => (ret.fresh = {} /\ ret.val = <<>>)


\* C21: empty() returns true if and only if the queue holds no event whose
\* cancelled flag is unset, and it changes neither the content of the queue
\* nor the flag of any event.
C21_EmptyIffNoLiveEvent ==
    [][ret'.op = "empty" =>
          /\ ret'.val = (\A e \in Range(pq) : cancelled[e])
          /\ pq' = pq /\ where' = where
          /\ cancelled' = cancelled]_vars

\* empty() returned true on a queue that still holds events, all cancelled.
C21_Witness ==
    ret.op = "empty" /\ ret.val /\ Len(pq) >= 2

\* C22: cancel(predicate) sets the cancelled flag of every event of the queue
\* that satisfies the predicate and returns exactly those events; the heap, the
\* position of every event and the flag of every event that does not satisfy
\* the predicate stay as they were.
C22_CancelMarksExactlyMatching ==
    [][ret'.op = "cancel" =>
          LET matching == {e \in Range(pq) : Holds(ret'.key, e)}
          IN  /\ Range(ret'.val) = matching
              /\ Len(ret'.val) = Cardinality(matching)
              /\ \A e \in EventIds :
                     cancelled'[e] = (cancelled[e] \/ e \in matching)
              /\ pq' = pq /\ where' = where]_vars

\* a cancel that marked two events of the queue and left a third one, which
\* does not satisfy the predicate, unmarked.
C22_Witness ==
    /\ ret.op = "cancel" /\ Cardinality(ret.fresh) = 2
    /\ \E e \in Range(pq) : ~cancelled[e]

\* C33: contains(key) and get(key) consider every event physically in the
\* heap, cancelled or not: a cancelled event is reported by both until a pop
\* discards it, so contains(key) can return true on a queue for which empty()
\* is true.
C33_ContainsAndGetSeeCancelled ==
    /\ ret.op = "contains" =>
           ret.val = (\E e \in Range(pq) : Holds(ret.key, e))
    /\ ret.op = "get" =>
           /\ Range(ret.val) = {e \in Range(pq) : Holds(ret.key, e)}
           /\ Len(ret.val) = Cardinality(Range(ret.val))

\* contains has returned true on a queue that holds cancelled events only,
\* for which empty() is true.
C33_Witness ==
    /\ ret.op = "contains" /\ ret.val
    /\ pq # <<>> /\ empty(pq)

NextPQ ==
    \/ \E e \in EventIds, c \in BOOLEAN : Push(e, c) /\ UNCHANGED <<svcvars, portvars, discovars, thrvars, lockvars>>
    \/ Pop /\ UNCHANGED <<svcvars, portvars, discovars, thrvars, lockvars>>
    \/ Empty /\ UNCHANGED <<svcvars, portvars, discovars, thrvars, lockvars>>
    \/ \E key \in Keys : Cancel(key) /\ UNCHANGED <<svcvars, portvars, discovars, thrvars, lockvars>>
    \/ \E key \in Keys : Contains(key) /\ UNCHANGED <<svcvars, portvars, discovars, thrvars, lockvars>>
    \/ \E key \in Keys : Get(key) /\ UNCHANGED <<svcvars, portvars, discovars, thrvars, lockvars>>

\* One PriorityQueue driven by its callers.
SpecPQ == InitPQ /\ [][NextPQ]_vars

\* ------------------------------------------------- service.py, test_service.py
is_async == service_mode = "ASYNC"

EventKinds == {"DummyEvent", "StopEvent"}

\* DummyService.process_event: event.execute() with no argument. What the call
\* raises: StopEvent.execute(self) runs and raises StopDummyServiceException;
\* DummyEvent.execute(self, scheduler) lacks its argument, so the call raises
\* TypeError before the body runs.
process_event(e) ==
    IF kind[e] = "StopEvent" THEN "StopDummyServiceException" ELSE "TypeError"

\* whether event.execute() enters the body of execute.
enters_execute(e) == kind[e] = "StopEvent"

\* the record of event.execute() beginning on e, as process_event calls it,
\* flag being e's cancelled flag at that moment (process_event does not read it).
runs(e, flag) ==
    IF enters_execute(e)
    THEN [ran EXCEPT ![e] = IF flag THEN "cancelled" ELSE "live"]
    ELSE ran

\* Service.add_event on an event the caller built; c: the caller called
\* AbstractEvent.cancel on it first.
AddEvent(e, c) ==
    /\ where[e] = "none"
    /\ \A f \in EventIds : f < e => where[f] # "none"
    /\ IF is_async
       THEN /\ Push(e, c)
            /\ UNCHANGED svcvars
       ELSE /\ cancelled' = [cancelled EXCEPT ![e] = c]
            /\ where' = [where EXCEPT ![e] = "sync"]
            /\ ran' = runs(e, c)
            /\ ret' = [op |-> "add_event", event |-> e, raised |-> process_event(e)]
            /\ UNCHANGED <<date_time, kind, pq, lastPop, late,
                           service_mode, thread, exc, held>>

\* AbstractEvent.cancel called by a thread that holds a reference to an event
\* that is still pending: in the queue, or popped and not processed yet.
EventCancel(e) ==
    /\ where[e] = "queued" \/ held = e
    /\ ~cancelled[e]
    /\ cancelled' = [cancelled EXCEPT ![e] = TRUE]
    /\ ret' = NoRet
    /\ UNCHANGED <<date_time, kind, pq, where, lastPop, late, svcvars>>

\* a start that does not look at the service mode.
Start_unchecked ==
    /\ thread = "created"
    /\ thread' = "running"
    /\ ret' = [op |-> "start", raised |-> None]
    /\ UNCHANGED <<date_time, cancelled, kind, pq, where, lastPop, late,
                   service_mode, exc, held, ran>>

\* Service.start: RuntimeError on a synchronous service, else Thread.start.
Start ==
    /\ thread = "created"
    /\ IF is_async
       THEN /\ thread' = "running"
            /\ ret' = [op |-> "start", raised |-> None]
       ELSE /\ thread' = thread
            /\ ret' = [op |-> "start", raised |-> "RuntimeError"]
    /\ UNCHANGED <<date_time, cancelled, kind, pq, where, lastPop, late,
                   service_mode, exc, held, ran>>

\* DummyService.run_with_exception: ev = self._event_queue.pop(); IndexError
\* is caught and the loop sleeps and tries again.
WorkerPop ==
    /\ thread = "running"
    /\ held = 0
    /\ LET r == pop(pq, {})
       IN  /\ pq' = r.heap
           /\ where' = [e \in EventIds |->
                           IF e = r.event \/ e \in r.discarded THEN "popped"
                           ELSE where[e]]
           /\ held' = r.event
    /\ ret' = NoRet
    /\ UNCHANGED <<date_time, cancelled, kind, lastPop, late,
                   service_mode, thread, exc, ran>>

\* a worker loop that does not catch the stop exception.
run_with_exception_nocatch(x) == x

\* DummyService.run_with_exception, when process_event raised x: what leaves
\* the loop. StopDummyServiceException breaks the loop and the body returns
\* (None); any other exception leaves the body. (IndexError comes from pop
\* alone and is caught there.)
run_with_exception(x) == IF x = "StopDummyServiceException" THEN None ELSE x

\* ExceptionThread.run, when the run body raised x (None: it returned): the
\* value of exc afterwards. NotImplementedError is raised again in the
\* thread and not stored; any other exception is stored.
run(x) == IF x = None \/ x = "NotImplementedError" THEN None ELSE x

\* whether the exception class can be built from the one message join gives it.
takes_message(x) == x # "UnicodeDecodeError"

\* ExceptionThread.join on a thread that has ended: what it raises.
join(x) ==
    IF x = None THEN None
    ELSE IF takes_message(x) THEN x
    ELSE "RuntimeError"

\* DummyService.run_with_exception: self.process_event(ev), the end of the
\* loop and of ExceptionThread.run.
WorkerProcess ==
    /\ thread = "running"
    /\ held # 0
    /\ ran' = runs(held, cancelled[held])
    /\ thread' = "stopped"
    /\ exc' = run(run_with_exception(process_event(held)))
    /\ held' = 0
    /\ ret' = NoRet
    /\ UNCHANGED <<date_time, cancelled, kind, pq, where, lastPop, late, service_mode>>

\* ExceptionThread.join on the service; Thread.join returns once the worker
\* has ended.
Join ==
    /\ thread = "stopped"
    /\ ret' = [op |-> "join", raised |-> join(exc)]
    /\ UNCHANGED <<date_time, cancelled, kind, pq, where, lastPop, late, svcvars>>

\* Service.cancel: self._event_queue.cancel(key); the queue is None on a
\* synchronous service.
ServiceCancel(key) ==
    /\ IF is_async
       THEN Cancel(key)
       ELSE /\ ret' = [op |-> "cancel", key |-> key, raised |-> "AttributeError"]
            /\ UNCHANGED <<date_time, cancelled, kind, pq, where, lastPop, late>>
    /\ UNCHANGED svcvars

\* Service.contains: self._event_queue.contains(key); the queue is None on a
\* synchronous service.
ServiceContains(key) ==
    /\ IF is_async
       THEN Contains(key)
       ELSE /\ ret' = [op |-> "contains", key |-> key, raised |-> "AttributeError"]
            /\ UNCHANGED <<date_time, cancelled, kind, pq, where, lastPop, late>>
    /\ UNCHANGED svcvars

\* a get that answers with an empty list when the service owns no queue.
ServiceGet_lenient(key) ==
    /\ IF is_async
       THEN Get(key)
       ELSE /\ ret' = [op |-> "get", key |-> key, raised |-> None, val |-> <<>>]
            /\ UNCHANGED <<date_time, cancelled, kind, pq, where, lastPop, late>>
    /\ UNCHANGED svcvars

\* Service.get: self._event_queue.get(key); the queue is None on a
\* synchronous service.
ServiceGet(key) ==
    /\ IF is_async
       THEN Get(key)
       ELSE /\ ret' = [op |-> "get", key |-> key, raised |-> "AttributeError"]
            /\ UNCHANGED <<date_time, cancelled, kind, pq, where, lastPop, late>>
    /\ UNCHANGED svcvars

\* StopEvent and DummyEvent take date_time = datetime.now() when they are
\* constructed, so an event built later is not earlier.
InitSvc ==
    /\ IdlePorts
    /\ IdleOthers
    /\ InitQueue
    /\ \A e, f \in EventIds : e < f => date_time[e] <= date_time[f]
    /\ kind \in [EventIds -> EventKinds]
    /\ \E mode \in {"ASYNC", "SYNC"} : InitService(mode)

NextSvc ==
    \/ \E e \in EventIds, c \in BOOLEAN : AddEvent(e, c) /\ UNCHANGED <<portvars, discovars, thrvars, lockvars>>
    \/ \E e \in EventIds : EventCancel(e) /\ UNCHANGED <<portvars, discovars, thrvars, lockvars>>
    \/ Start /\ UNCHANGED <<portvars, discovars, thrvars, lockvars>>
    \/ WorkerPop /\ UNCHANGED <<portvars, discovars, thrvars, lockvars>>
    \/ WorkerProcess /\ UNCHANGED <<portvars, discovars, thrvars, lockvars>>
    \/ \E key \in Keys : ServiceCancel(key) /\ UNCHANGED <<portvars, discovars, thrvars, lockvars>>
    \/ Join /\ UNCHANGED <<portvars, discovars, thrvars, lockvars>>

\* One Service (DummyService), its callers and its worker thread.
SpecSvc == InitSvc /\ [][NextSvc]_vars

\* the steps of the worker thread.
NextWorker == (WorkerPop \/ WorkerProcess) /\ UNCHANGED <<portvars, discovars, thrvars, lockvars>>

\* The same, with the worker thread scheduled fairly once it runs.
SpecSvcLive == SpecSvc /\ WF_vars(NextWorker)

\* ----------------------------------------------------- service properties
\* C6: a Service never runs execute on an event whose cancelled flag was set
\* before the execution began, neither from the synchronous add_event nor
\* from the asynchronous worker after pop.
C6_CancelledNeverExecuted ==
    \A e \in EventIds : ran[e] # "cancelled"

\* C15: once add_event(e) on a synchronous service has ended, for a
\* DummyEvent e, it has returned (not raised) and e.execute has run: e is
\* marked executed.
C15_SyncAddEventExecutes ==
    (~is_async /\ ret.op = "add_event" /\ kind[ret.event] = "DummyEvent")
    => ret.raised = None /\ ran[ret.event] # "no"

\* C16: on a started asynchronous service whose worker is scheduled fairly,
\* every event that is in the queue and not cancelled is eventually executed
\* (unless it is cancelled meanwhile).
C16_EnqueuedEventuallyExecuted ==
    [](\A e \in EventIds :
          (is_async /\ thread = "running" /\ where[e] = "queued" /\ ~cancelled[e])
          => <>(ran[e] # "no" \/ cancelled[e]))

\* the worker of an asynchronous service has executed a stop event.
StopExecuted ==
    /\ is_async
    /\ \E e \in EventIds :
          kind[e] = "StopEvent" /\ where[e] = "popped" /\ ran[e] # "no"

\* C17: once the worker has executed a stop event the service is not alive
\* any more and holds no failure, no execute begins afterwards, and a join
\* made then returns without raising (join returns as the worker has ended).
C17_StopEndsWorker ==
    [][StopExecuted' =>
          /\ thread' = "stopped"
          /\ exc' = None
          /\ held' = 0
          /\ (StopExecuted => ran' = ran)
          /\ (ret'.op = "join" => ret'.raised = None)]_vars

\* the worker executed a stop event while a live event was left in the
\* queue, and join has returned.
C17_Witness ==
    /\ StopExecuted
    /\ ret.op = "join" /\ ret.raised = None
    /\ \E f \in EventIds : where[f] = "queued" /\ ~cancelled[f] /\ ran[f] = "no"

\* C19: on a synchronous service start() raises RuntimeError and no worker
\* exists at any time: the thread is never started, nothing is queued, and
\* every add_event runs process_event inline.
C19_SyncStartFails ==
    ~is_async =>
        /\ thread = "created"
        /\ held = 0
        /\ pq = <<>>
        /\ (ret.op = "start" => ret.raised = "RuntimeError")
        /\ \A e \in EventIds : where[e] \in {"none", "sync"}
        /\ (ret.op = "add_event" =>
               /\ where[ret.event] = "sync"
               /\ ret.raised = process_event(ret.event))

\* start() has failed on a synchronous service that executed an event inline.
C19_Witness ==
    /\ ~is_async
    /\ ret.op = "start" /\ ret.raised = "RuntimeError"
    /\ thread = "created"
    /\ \E e \in EventIds : where[e] = "sync"

\* A Service of either mode whose callers add DummyEvents and use the three
\* queue operations of the Service while the worker runs.
InitSvcOps ==
    /\ InitSvc
    /\ kind = [e \in EventIds |-> "DummyEvent"]

NextSvcOps ==
    \/ \E e \in EventIds, c \in BOOLEAN : AddEvent(e, c) /\ UNCHANGED <<portvars, discovars, thrvars, lockvars>>
    \/ Start /\ UNCHANGED <<portvars, discovars, thrvars, lockvars>>
    \/ WorkerPop /\ UNCHANGED <<portvars, discovars, thrvars, lockvars>>
    \/ WorkerProcess /\ UNCHANGED <<portvars, discovars, thrvars, lockvars>>
    \/ \E key \in Keys : ServiceCancel(key) /\ UNCHANGED <<portvars, discovars, thrvars, lockvars>>
    \/ \E key \in Keys : ServiceContains(key) /\ UNCHANGED <<portvars, discovars, thrvars, lockvars>>
    \/ \E key \in Keys : ServiceGet(key) /\ UNCHANGED <<portvars, discovars, thrvars, lockvars>>

SpecSvcOps == InitSvcOps /\ [][NextSvcOps]_vars

\* C29: on an asynchronous Service, cancel, contains and get return exactly
\* what the same operation on the owned priority queue returns; on a
\* synchronous Service, which owns no queue, each of the three fails with an
\* error and changes no state.
C29_ServiceQueueOpsDelegate ==
    [][ret'.op \in {"cancel", "contains", "get"} =>
          IF is_async
          THEN /\ ret'.val = IF ret'.op = "contains"
                             THEN contains(pq, ret'.key)
                             ELSE scan(pq, ret'.key)
               /\ ret'.op = "cancel" =>
                      \A e \in EventIds :
                          cancelled'[e] = (cancelled[e] \/ e \in Range(ret'.val))
               /\ ret'.op # "cancel" => cancelled' = cancelled
               /\ pq' = pq
          ELSE /\ ret'.raised = "AttributeError"
               /\ UNCHANGED <<date_time, cancelled, kind, pq, where, lastPop, late>>
               /\ UNCHANGED svcvars]_vars

\* get() has failed on a synchronous service that had executed two events
\* inline.
C29_Witness ==
    /\ ~is_async
    /\ ret.op = "get" /\ ret.raised = "AttributeError"
    /\ Cardinality({e \in EventIds : where[e] = "sync"}) = 2

\* ------------------------------------------------------------ port actions
\* receive_callback setter
SetReceiveCallback(p, h) ==
    /\ port' = [port EXCEPT ![p].receive_callback = h]
    /\ out' = NoOut
    /\ UNCHANGED <<task, wire, replies>>

\* receive_callback_tcp setter, on the port that reads it; the callback is
\* called with the data alone.
SetReceiveCallbackTcp(p) ==
    /\ port[p].mode = TCP_RECV
    /\ port[p].receive_callback_tcp = None
    /\ port' = [port EXCEPT ![p].receive_callback_tcp = "silent"]
    /\ out' = NoOut
    /\ UNCHANGED <<task, wire, replies>>

\* soc.connect(target): zmq wants an address string and an open socket.
connect(p, t) ==
    LET same == [raised |-> None, soc |-> port[p].soc, endpoint |-> port[p].endpoint]
    IN  IF port[p].mode # TCP_SEND THEN same
        ELSE IF t.is # "str" THEN [same EXCEPT !.raised = "TypeError"]
        ELSE IF port[p].soc = "closed" THEN [same EXCEPT !.raised = "ZMQError"]
        ELSE [raised |-> None, soc |-> "connected", endpoint |-> t.address]

\* target_port setter: the target is stored, then a TCP_SEND port connects.
\* (A socket is connected to one address: no second address is given to a
\* socket that is connected.)
SetTarget(p, t) ==
    /\ t \in Targets(p, port[p].mode)
    /\ (port[p].mode = TCP_SEND /\ t.is = "str") => port[p].soc \in {"open", "closed"}
    /\ LET c == connect(p, t)
       IN  /\ port' = [port EXCEPT ![p].target_port = t, ![p].soc = c.soc,
                                   ![p].endpoint = c.endpoint]
           /\ out' = [op |-> "target_port", port |-> p, raised |-> c.raised]
    /\ UNCHANGED <<task, wire, replies>>

\* a send that only logs, as is_ready does, and returns.
not_ready_logged(p) == Returned(<<>>, task)

\* send on a port that is not ready: raise RuntimeError.
not_ready(p) == Raised("RuntimeError", <<>>, task)

\* the TCP_SEND branch without its ReceiveThread.
send_tcp_no_thread(p, data) ==
    [raised |-> IF port[p].soc = "connected" THEN None ELSE "ZMQError",
     calls |-> <<>>, task |-> task,
     soc |-> IF port[p].soc = "connected" THEN "sent" ELSE port[p].soc,
     wire |-> IF port[p].soc = "connected"
              THEN wire \cup {[to |-> port[p].endpoint, from |-> p,
                               data |-> dumps(data)]}
              ELSE wire]

\* the TCP_SEND branch of send: soc.send(pickle.dumps(data)), then the
\* ReceiveThread is created and started and send returns. A REQ socket with
\* no connection blocks in send; one that awaits a reply or is closed raises.
send_tcp(p, data) ==
    CASE port[p].soc = "connected" ->
            [raised |-> None, calls |-> <<>>,
             task |-> [task EXCEPT ![p] = ReceiveThread],
             soc |-> "sent",
             wire |-> wire \cup {[to |-> port[p].endpoint, from |-> p,
                                  data |-> dumps(data)]}]
      [] port[p].soc = "open" ->
            [raised |-> "blocked", calls |-> <<>>, task |-> task,
             soc |-> port[p].soc, wire |-> wire]
      [] OTHER ->
            [raised |-> "ZMQError", calls |-> <<>>, task |-> task,
             soc |-> port[p].soc, wire |-> wire]

\* CommunicationPort.send
send(p, data) ==
    LET local(r) == [raised |-> r.raised, calls |-> r.calls, task |-> r.task,
                     soc |-> port[p].soc, wire |-> wire]
    IN  IF ~is_ready(p) THEN local(not_ready(p))
        ELSE IF port[p].mode = FUNCTION_CALL_SEND
        THEN local(receive(port[p].target_port.ref, data, Respond("receive", p), task))
        ELSE IF port[p].mode = TCP_SEND THEN send_tcp(p, data)
        ELSE local(Raised("AttributeError", <<>>, task))

Send(p, data) ==
    LET r == send(p, data)
    IN  /\ port' = [port EXCEPT ![p].soc = r.soc]
        /\ task' = r.task
        /\ wire' = r.wire
        /\ out' = [op |-> "send", port |-> p, data |-> data,
                   raised |-> r.raised, calls |-> r.calls]
        /\ UNCHANGED replies

\* port.receive(data) called by the owner of the port with no respond
\* function, as test_tcp does for the last leg of a round trip.
Receive(p, data) ==
    /\ LET r == receive(p, data, NoRespond, task)
       IN  /\ task' = r.task
           /\ out' = [op |-> "receive", port |-> p, data |-> data,
                      respond |-> FALSE, raised |-> r.raised, calls |-> r.calls]
    /\ UNCHANGED <<port, wire, replies>>

\* port.task.start() and ListenThread.run up to s.recv(): the address is
\* checked, then the socket is bound; a second bind of a port number fails.
\* Thread.start() returns normally to its caller: what run raises is raised
\* in the new thread, which ends with it.
ListenStart(q) ==
    /\ task[q].thread = "ListenThread"
    /\ task[q].state = "created"
    /\ LET bound == \E r \in PortIds :
                        /\ task[r].thread = "ListenThread"
                        /\ task[r].state \in {"listening", "received"}
                        /\ task[r].address.port = task[q].address.port
       IN  task' = [task EXCEPT ![q].state =
                       IF ~check_address(task[q].address) THEN "ValueError"
                       ELSE IF bound THEN "ZMQError"
                       ELSE "listening"]
    /\ out' = [op |-> "start", port |-> q, raised |-> None]
    /\ UNCHANGED <<port, wire, replies>>

\* ListenThread.run: self.data = pickle.loads(s.recv()); self.recv = True
ListenRecv(q) ==
    /\ task[q].thread = "ListenThread"
    /\ task[q].state = "listening"
    /\ \E m \in wire :
          /\ m.to.local
          /\ m.to.port = task[q].address.port
          /\ task' = [task EXCEPT ![q].state = "received", ![q].data = loads(m.data),
                                  ![q].recv = TRUE, ![q].peer = m.from]
          /\ wire' = wire \ {m}
    /\ out' = NoOut
    /\ UNCHANGED <<port, replies>>

\* The owner of a TCP_RECV port, once port.task.recv is set:
\* port.receive(port.task.data, respond_function=port.receive_tcp)
DeliverRequest(q) ==
    /\ task[q].thread = "ListenThread"
    /\ task[q].state = "received"
    /\ LET r == receive(q, task[q].data, Respond("receive_tcp", q), task)
       IN  /\ task' = r.task
           /\ out' = [op |-> "receive", port |-> q, data |-> task[q].data,
                      respond |-> TRUE, raised |-> r.raised, calls |-> r.calls]
    /\ UNCHANGED <<port, wire, replies>>

\* port.receive_tcp(data) called by the owner of the port with the reply
\* payload of its choice, once the listener holds a request and while no
\* reply payload was supplied.
ReceiveTcp(q, data) ==
    /\ task[q].thread = "ListenThread"
    /\ task[q].state = "received"
    /\ task[q].send_message = NoData
    /\ LET r == receive_tcp(q, data, task)
       IN  /\ task' = r.task
           /\ out' = [op |-> "receive_tcp", port |-> q, data |-> data,
                      raised |-> r.raised, calls |-> r.calls]
    /\ UNCHANGED <<port, wire, replies>>

\* a listener that goes back to s.recv() after its reply.
ListenReply_again(q) ==
    /\ task[q].thread = "ListenThread"
    /\ task[q].state = "received"
    /\ truthy(task[q].send_message)
    /\ replies' = replies \cup {[to |-> task[q].peer,
                                  data |-> dumps(task[q].send_message)]}
    /\ task' = [task EXCEPT ![q].state = "listening"]
    /\ out' = NoOut
    /\ UNCHANGED <<port, wire>>

\* ListenThread.run: once _send_message is truthy,
\* s.send(pickle.dumps(self._send_message)); s.close()
ListenReply(q) ==
    /\ task[q].thread = "ListenThread"
    /\ task[q].state = "received"
    /\ truthy(task[q].send_message)
    /\ replies' = replies \cup {[to |-> task[q].peer,
                                  data |-> dumps(task[q].send_message)]}
    /\ task' = [task EXCEPT ![q].state = "done"]
    /\ out' = NoOut
    /\ UNCHANGED <<port, wire>>

\* ReceiveThread.run: self.data = pickle.loads(self.soc.recv());
\* self.recv = True; self.soc.close()
ReceiveRun(p) ==
    /\ task[p].thread = "ReceiveThread"
    /\ task[p].state = "waiting"
    /\ \E m \in replies :
          /\ m.to = p
          /\ task' = [task EXCEPT ![p].state = "done", ![p].data = loads(m.data),
                                  ![p].recv = TRUE]
          /\ replies' = replies \ {m}
    /\ port' = [port EXCEPT ![p].soc = "closed"]
    /\ out' = NoOut
    /\ UNCHANGED wire

\* A request that the REQ socket of another process sends to a bound address:
\* what s.recv() of a ListenThread can return besides the requests of the
\* ports of this process. (The other process is a REQ socket too: it has one
\* request outstanding at a time.)
Peer == "peer"
PeerRequest(a, data) ==
    /\ \E q \in PortIds :
          /\ task[q].thread = "ListenThread"
          /\ task[q].state \in {"listening", "received", "done"}
          /\ task[q].address = a
    /\ \A m \in wire : m.from # Peer
    /\ wire' = wire \cup {[to |-> a, from |-> Peer, data |-> dumps(data)]}
    /\ out' = NoOut
    /\ UNCHANGED <<port, task, replies>>

othervars == <<pqvars, svcvars, discovars, thrvars, lockvars>>

NextPort ==
    \/ \E p \in PortIds, h \in Handlers : SetReceiveCallback(p, h) /\ UNCHANGED othervars
    \/ \E p \in PortIds : SetReceiveCallbackTcp(p) /\ UNCHANGED othervars
    \/ \E p \in PortIds : \E t \in Targets(p, port[p].mode) :
          SetTarget(p, t) /\ UNCHANGED othervars
    \/ \E p \in PortIds, data \in Payloads : Send(p, data) /\ UNCHANGED othervars
    \/ \E p \in PortIds, data \in Payloads : Receive(p, data) /\ UNCHANGED othervars
    \/ \E q \in PortIds : ListenStart(q) /\ UNCHANGED othervars
    \/ \E q \in PortIds : ListenRecv(q) /\ UNCHANGED othervars
    \/ \E q \in PortIds : DeliverRequest(q) /\ UNCHANGED othervars
    \/ \E q \in PortIds : ListenReply(q) /\ UNCHANGED othervars
    \/ \E p \in PortIds : ReceiveRun(p) /\ UNCHANGED othervars

\* the queue and the service as constructed, untouched by the ports.
IdleService ==
    /\ InitQueue
    /\ date_time = [e \in EventIds |-> 1]
    /\ kind = [e \in EventIds |-> "DummyEvent"]
    /\ InitService("SYNC")

InitPort == InitPorts /\ IdleService /\ IdleOthers

\* Two CommunicationPorts, their owners and their transport threads.
SpecPort == InitPort /\ [][NextPort]_vars

\* -------------------------------------------------------- port properties
\* a callback invocation as the log records it.
Call(q, data, respond) ==
    [port |-> q, cb |-> "receive_callback", data |-> data, respond |-> respond]

SendReturned == out.op = "send" /\ out.raised = None

\* the replies delivered to port p's receive callback during the last send.
Delivered(p) ==
    {i \in 1..Len(out.calls) : out.calls[i].port = p /\ ~out.calls[i].respond}

\* C7: when a local-send port A targets a local-receive port B and both have
\* receive callbacks, A.send(p) invokes B's callback exactly once, with exactly
\* p and a reply function, and each call of the reply function with r invokes
\* A's callback with exactly r, all before A.send returns.
C7_LocalRoundTrip ==
    \A a, b \in PortIds :
        ( /\ out.op = "send" /\ out.port = a
          /\ port[a].mode = FUNCTION_CALL_SEND
          /\ port[a].target_port = PortRef(b)
          /\ port[b].mode = FUNCTION_CALL_RECV
          /\ port[a].receive_callback # None
          /\ port[b].receive_callback # None )
        => /\ out.raised = None
           /\ out.calls = <<Call(b, out.data, TRUE)>> \o
                 [i \in 1..NReplies(port[b].receive_callback) |->
                     Call(a, Reply(i), FALSE)]

\* a round trip in which B's callback replied twice to a non-empty request.
C7_Witness ==
    /\ SendReturned /\ out.data # <<>>
    /\ port[out.port].mode = FUNCTION_CALL_SEND
    /\ port[out.port].target_port.is = "CommunicationPort"
    /\ port[port[out.port].target_port.ref].mode = FUNCTION_CALL_RECV
    /\ Len(out.calls) = 3

\* C8: send on a port for which is_ready() is false raises RuntimeError at
\* once; no receive callback of any port is invoked and nothing is
\* transmitted.
C8_SendNotReadyRaises ==
    [][(out'.op = "send" /\ ~is_ready(out'.port)) =>
          /\ out'.raised = "RuntimeError"
          /\ out'.calls = <<>>
          /\ wire' = wire /\ replies' = replies
          /\ task' = task /\ port' = port]_vars

\* a send refused on a local-send port whose target is an address string
\* while the other port has a callback.
C8_Witness ==
    /\ out.op = "send" /\ out.raised = "RuntimeError"
    /\ port[out.port].mode = FUNCTION_CALL_SEND
    /\ port[out.port].target_port.is = "str"
    /\ \E q \in PortIds \ {out.port} : port[q].receive_callback # None

\* C9: a port for which is_ready() is true has its target set; a network-send
\* port is ready only after its target was set to an address and the
\* connection was established.
C9_ReadyImpliesTargetSet ==
    \A p \in PortIds :
        is_ready(p) =>
            /\ port[p].target_port # NoTarget
            /\ port[p].mode = TCP_SEND =>
                   /\ port[p].target_port.is = "str"
                   /\ port[p].soc \in {"connected", "sent"}

\* C10 as stated: send on a port of either sending mode does not return
\* before the reply to the request has been received.
C10_SendReturnsAfterReply ==
    SendReturned =>
        IF port[out.port].mode = TCP_SEND
        THEN task[out.port].thread = "ReceiveThread" /\ task[out.port].recv
        ELSE Cardinality(Delivered(out.port)) =
                NReplies(port[port[out.port].target_port.ref].receive_callback)

\* C10 amended: send on a local-send port returns after every reply that the
\* target's callback made during the call was delivered to the sender's
\* callback; send on a network-send port does not wait for the reply: it
\* returns once the pickled request is on the socket and the ReceiveThread is
\* started, the reply not received yet.
C10_SendReturnsAfterLocalReply ==
    SendReturned =>
        IF port[out.port].mode = TCP_SEND
        THEN /\ task[out.port] = ReceiveThread
             /\ ~task[out.port].recv
             /\ port[out.port].soc = "sent"
             /\ [to |-> port[out.port].endpoint, from |-> out.port,
                 data |-> dumps(out.data)] \in wire
        ELSE Cardinality(Delivered(out.port)) =
                NReplies(port[port[out.port].target_port.ref].receive_callback)

\* a network send that has returned while a listener is bound to the address
\* and no reply has been received.
C10_Witness ==
    /\ SendReturned
    /\ port[out.port].mode = TCP_SEND
    /\ ~task[out.port].recv
    /\ \E q \in PortIds :
          /\ task[q].thread = "ListenThread"
          /\ task[q].state = "listening"
          /\ task[q].address = port[out.port].endpoint

\* C23: for a port of every transport mode (local-send, local-receive,
\* network-send, network-receive) whose receive callback is set,
\* receive(payload) called with no reply function delivers the payload to the
\* port's receive callback exactly once.
C23_ReceiveWithoutReplyDelivers ==
    ( /\ out.op = "receive" /\ ~out.respond
      /\ port[out.port].receive_callback # None )
    => /\ out.raised = None
       /\ out.calls = <<Call(out.port, out.data, FALSE)>>

\* C24: sending to a receiving port whose receive callback was never set is a
\* silent no-op: send returns normally, raises nothing and invokes no callback.
C24_SendToUnsetCallbackSilent ==
    \A a, b \in PortIds :
        ( /\ out.op = "send" /\ out.port = a
          /\ port[a].mode = FUNCTION_CALL_SEND
          /\ port[a].target_port = PortRef(b)
          /\ port[b].mode = FUNCTION_CALL_RECV
          /\ port[b].receive_callback = None )
        => /\ out.raised = None
           /\ out.calls = <<>>

\* C25: each send on a network-send port opens a new connection: a send on a
\* port whose earlier round trip has completed, its connection closed, goes
\* out on a fresh, open connection.
C25_SendOpensNewConnection ==
    [][\A p \in PortIds :
          ( /\ out'.op = "send" /\ out'.port = p
            /\ port[p].mode = TCP_SEND
            /\ task[p].thread = "ReceiveThread" /\ task[p].state = "done"
            /\ port[p].soc = "closed" )
          => /\ out'.raised = None
             /\ port'[p].soc = "sent"
             /\ [to |-> port[p].endpoint, from |-> p,
                 data |-> dumps(out'.data)] \in wire']_vars

\* C30: a local-send port accepts as target only a port configured for
\* local-receive: while its target is a port of any other mode, the port is
\* not ready and send delivers nothing to that target.
C30_LocalSendTargetsLocalReceive ==
    \A a, b \in PortIds :
        ( /\ port[a].mode = FUNCTION_CALL_SEND
          /\ port[a].target_port = PortRef(b)
          /\ port[b].mode # FUNCTION_CALL_RECV )
        => /\ ~is_ready(a)
           /\ (out.op = "send" /\ out.port = a) =>
                  /\ out.raised = "RuntimeError"
                  /\ \A i \in 1..Len(out.calls) : out.calls[i].port # b

\* C32: send on a port constructed in a receive mode (local-receive or
\* network-receive) always fails with the RuntimeError of a port that is not
\* ready, whatever its target is set to, and invokes no callback; no send ever
\* reaches the AttributeError branch.
C32_SendOnReceivePortNotReady ==
    out.op = "send" =>
        /\ out.raised # "AttributeError"
        /\ port[out.port].mode \in {FUNCTION_CALL_RECV, TCP_RECV} =>
               /\ out.raised = "RuntimeError"
               /\ out.calls = <<>>

\* send has failed on a receive-mode port whose target is a port with a
\* receive callback.
C32_Witness ==
    /\ out.op = "send" /\ out.raised = "RuntimeError"
    /\ port[out.port].mode \in {FUNCTION_CALL_RECV, TCP_RECV}
    /\ port[out.port].target_port.is = "CommunicationPort"
    /\ port[port[out.port].target_port.ref].receive_callback # None

\* C31: a network-receive listener whose address host is neither the literal
\* localhost nor four dot-separated octets each in 0..255 fails with the
\* invalid-address error (ValueError) before it binds or receives anything,
\* and the failure is observable to the code that started the port; a
\* listener whose host is valid does not fail this check.
C31_InvalidAddressFailsObservably ==
    \A q \in PortIds :
        task[q].thread = "ListenThread" =>
            IF check_address(task[q].address)
            THEN task[q].state # "ValueError"
            ELSE /\ task[q].state \in {"created", "ValueError"}
                 /\ ~task[q].recv
                 /\ (out.op = "start" /\ out.port = q) =>
                        out.raised = "ValueError"

\* The port pair of test_tcp, a network-send port and a network-receive
\* port, with the requests of other processes.
InitListen ==
    /\ InitPort
    /\ port["port_a"].mode = TCP_SEND
    /\ port["port_b"].mode = TCP_RECV

NextListen ==
    \/ \E p \in PortIds, h \in Handlers : SetReceiveCallback(p, h) /\ UNCHANGED othervars
    \/ \E p \in PortIds : SetReceiveCallbackTcp(p) /\ UNCHANGED othervars
    \/ \E p \in PortIds : \E t \in Targets(p, port[p].mode) :
          SetTarget(p, t) /\ UNCHANGED othervars
    \/ \E p \in PortIds, data \in Payloads : Send(p, data) /\ UNCHANGED othervars
    \/ \E q \in PortIds : ListenStart(q) /\ UNCHANGED othervars
    \/ \E q \in PortIds : ListenRecv(q) /\ UNCHANGED othervars
    \/ \E q \in PortIds : DeliverRequest(q) /\ UNCHANGED othervars
    \/ \E q \in PortIds : ListenReply(q) /\ UNCHANGED othervars
    \/ \E p \in PortIds : ReceiveRun(p) /\ UNCHANGED othervars
    \/ \E a \in Addresses, data \in Payloads : PeerRequest(a, data) /\ UNCHANGED othervars

SpecListen == InitListen /\ [][NextListen]_vars

\* C26: a network-receive listener is one-shot and ordered: it sets its
\* received flag only when one inbound message has been received and stored,
\* sends a reply only after the flag is set and the local side has supplied a
\* reply payload, sends at most one reply, and then closes and terminates
\* without accepting a second message.
C26_ListenerOneShotOrdered ==
    [][\A q \in PortIds :
          task[q].thread = "ListenThread" =>
              /\ (task'[q].recv /\ ~task[q].recv) =>
                     /\ task[q].state = "listening"
                     /\ \E m \in wire :
                            /\ wire' = wire \ {m}
                            /\ task'[q].data = loads(m.data)
              /\ ~(replies' \subseteq replies) =>
                     /\ task[q].state = "received" /\ task[q].recv
                     /\ truthy(task[q].send_message)
                     /\ replies' = replies \cup
                            {[to |-> task[q].peer,
                              data |-> dumps(task[q].send_message)]}
                     /\ task'[q].state = "done"
              /\ task[q].recv =>
                     /\ task'[q].recv
                     /\ task'[q].data = task[q].data
                     /\ {m \in wire : m.to = task[q].address} \subseteq wire'
              /\ task[q].state = "done" => task'[q] = task[q]]_vars

\* the listener has received one request, replied and ended, while a second
\* request to its address is waiting.
C26_Witness ==
    \E q \in PortIds :
        /\ task[q].thread = "ListenThread"
        /\ task[q].state = "done" /\ task[q].recv
        /\ \E m \in wire : m.to = task[q].address
        /\ \E p \in PortIds : task[p].thread = "ReceiveThread" /\ task[p].recv

\* the steps of the transport threads.
NextTransport ==
    \/ \E q \in PortIds : ListenStart(q) /\ UNCHANGED othervars
    \/ \E q \in PortIds : ListenRecv(q) /\ UNCHANGED othervars
    \/ \E q \in PortIds : ListenReply(q) /\ UNCHANGED othervars
    \/ \E p \in PortIds : ReceiveRun(p) /\ UNCHANGED othervars

\* The same, with the ListenThread and the ReceiveThread scheduled fairly.
SpecListenLive == SpecListen /\ WF_vars(NextTransport)

\* C27: after a network-send port has sent a request and the peer's listener
\* has sent back its reply, the recv flag of the sending port eventually
\* becomes true, so that a caller polling port.recv terminates.
C27_PortRecvEventuallyTrue ==
    [](\A p \in PortIds :
          ( /\ port[p].mode = TCP_SEND
            /\ task[p].thread = "ReceiveThread"
            /\ \E m \in replies : m.to = p )
          => <>(port[p].recv))

\* The port pair of test_tcp whose receiving side answers the request either
\* through its receive callback or with a payload of its own, the transport
\* threads scheduled fairly.
NextReply ==
    \/ \E p \in PortIds, h \in Handlers : SetReceiveCallback(p, h) /\ UNCHANGED othervars
    \/ \E p \in PortIds : SetReceiveCallbackTcp(p) /\ UNCHANGED othervars
    \/ \E p \in PortIds : \E t \in Targets(p, port[p].mode) :
          SetTarget(p, t) /\ UNCHANGED othervars
    \/ \E p \in PortIds, data \in Payloads : Send(p, data) /\ UNCHANGED othervars
    \/ \E q \in PortIds : ListenStart(q) /\ UNCHANGED othervars
    \/ \E q \in PortIds : ListenRecv(q) /\ UNCHANGED othervars
    \/ \E q \in PortIds : DeliverRequest(q) /\ UNCHANGED othervars
    \/ \E q \in PortIds, data \in Payloads : ReceiveTcp(q, data) /\ UNCHANGED othervars
    \/ \E q \in PortIds : ListenReply(q) /\ UNCHANGED othervars
    \/ \E p \in PortIds : ReceiveRun(p) /\ UNCHANGED othervars

SpecReplyLive == InitListen /\ [][NextReply]_vars /\ WF_vars(NextTransport)

\* C34: once a network-receive listener has received its message and the
\* local side has supplied a reply payload through send_message, the listener
\* eventually sends the reply and terminates, for every reply payload, an
\* empty mapping included.
C34_ListenerEventuallyReplies ==
    [](\A q \in PortIds :
          ( /\ task[q].thread = "ListenThread"
            /\ task[q].state = "received"
            /\ task[q].send_message # NoData )
          => <>(task[q].thread = "ListenThread" /\ task[q].state = "done"))

\* ------------------------------------------------------- discovery actions
\* CommunicationMode.<name>: the attribute lookup on the Enum class.
CommunicationMode_member(name) ==
    IF name \in CommunicationMode
    THEN [raised |-> None, value |-> name]
    ELSE [raised |-> "AttributeError", value |-> None]

\* resport = None
NoPort == [mode |-> None]

\* The discovery targets connect_to_service is given: the discovery server's
\* port, or its address string.
DiscoveryTargets ==
    {PortRef("port_disco")} \cup {AddressStr(a) : a \in LocalAddresses}

\* connect_to_service, lines 185-197: the discovery port is built, given its
\* target and callback, the request is sent and the reply awaited. A local
\* send delivers the server's reply to _discovery_handle_response inside the
\* call; the ReceiveThread of a network send never calls the callback, so the
\* wait for _ready does not end.
discover(mode, service_type, target) ==
    LET discovery_port ==
            [NewPort(mode, NoAddress) EXCEPT !.target_port = target,
                !.receive_callback = "_discovery_handle_response"]
        ready ==
            \/ target.is = "CommunicationPort" /\ mode = FUNCTION_CALL_SEND
            \/ mode = TCP_SEND /\ discovery_port.listening
    IN  IF mode = TCP_SEND /\ target.is # "str"
        THEN [raised |-> "TypeError", resdata |-> NoEntry]
        ELSE IF ~ready THEN [raised |-> "RuntimeError", resdata |-> NoEntry]
        ELSE IF mode = FUNCTION_CALL_SEND
        THEN LET r == DiscoveryServer_receive([service_type |-> service_type])
             IN  [raised |-> r.raised, resdata |-> r.calls[Len(r.calls)]]
        ELSE [raised |-> "blocked", resdata |-> NoEntry]

\* connect_to_service, lines 198-217: the port built from the reply. With an
\* error reply resport stays None and line 215 sets an attribute on it.
make_resport(resdata, service_handle_response) ==
    IF "service_reference" \in DOMAIN resdata
    THEN LET m == CommunicationMode_member("FUNCTION_CALL")
         IN  IF m.raised # None THEN [raised |-> m.raised, resport |-> NoPort]
             ELSE [raised |-> None,
                   resport |->
                     [NewPort(m.value, NoAddress) EXCEPT
                        !.target_port = PortRef(resdata.service_reference),
                        !.receive_callback = service_handle_response]]
    ELSE IF "tcp_port" \in DOMAIN resdata
    THEN LET m == CommunicationMode_member("TCP")
         IN  IF m.raised # None THEN [raised |-> m.raised, resport |-> NoPort]
             ELSE [raised |-> None,
                   resport |->
                     [NewPort(m.value, NoAddress) EXCEPT
                        !.target_port = AddressStr(resdata.tcp_port),
                        !.receive_callback = service_handle_response]]
    ELSE IF "error" \in DOMAIN resdata
    THEN [raised |-> "AttributeError", resport |-> NoPort]
    ELSE [raised |-> "ValueError", resport |-> NoPort]

\* DiscoveryDelegate.connect_to_service
connect_to_service(service_type, service_handle_response, discovery_port_target) ==
    LET m == CommunicationMode_member(
                IF discovery_port_target.is = "CommunicationPort"
                THEN "FUNCTION_CALL" ELSE "TCP")
    IN  IF m.raised # None THEN [raised |-> m.raised, resport |-> NoPort]
        ELSE LET d == discover(m.value, service_type, discovery_port_target)
             IN  IF d.raised # None THEN [raised |-> d.raised, resport |-> NoPort]
                 ELSE make_resport(d.resdata, service_handle_response)

\* a caller asks a DiscoveryDelegate for a port to a service.
ConnectToService(t, target) ==
    /\ disco' = [op |-> "connect_to_service", service_type |-> t,
                 target |-> target, handler |-> "silent",
                 raised |-> connect_to_service(t, "silent", target).raised,
                 resport |-> connect_to_service(t, "silent", target).resport]
    /\ UNCHANGED services_data

InitDiscovery == InitDisco /\ IdleService /\ IdlePorts /\ IdleThreads /\ IdleLock

NextDisco ==
    \/ \E data \in Requests : ServerReceive(data) /\ UNCHANGED <<pqvars, svcvars, portvars, thrvars, lockvars>>
    \/ \E t \in ServiceType, target \in DiscoveryTargets :
          ConnectToService(t, target) /\ UNCHANGED <<pqvars, svcvars, portvars, thrvars, lockvars>>

\* One DiscoveryServer with its registry, and the DiscoveryDelegates asking it.
SpecDisco == InitDiscovery /\ [][NextDisco]_vars

\* -------------------------------------------------- discovery properties
\* the positions of the registry entries whose service type is t.
Registered(t) == {i \in 1..Len(services_data) : services_data[i].service_type = t}

\* the first entry of the registry whose service type is t.
FirstRegistered(t) ==
    services_data[CHOOSE i \in Registered(t) : \A j \in Registered(t) : i <= j]

C12_ConnectLocalReturnsReadyPort ==
    (/\ disco.op = "connect_to_service"
     /\ disco.target.is = "CommunicationPort"
     /\ Registered(disco.service_type) # {}
     /\ "service_reference" \in DOMAIN FirstRegistered(disco.service_type))
    => /\ disco.raised = None
       /\ disco.resport.mode = FUNCTION_CALL_SEND
       /\ disco.resport.target_port =
             PortRef(FirstRegistered(disco.service_type).service_reference)
       /\ disco.resport.receive_callback = disco.handler

\* C13: connect_to_service for a type whose registry entry is a transport
\* address entry built by make_service_data (key service_tcp_port) returns a
\* network-send port bound to that address.
C13_ConnectAddressReturnsTcpPort ==
    (/\ disco.op = "connect_to_service"
     /\ Registered(disco.service_type) # {}
     /\ "service_tcp_port" \in DOMAIN FirstRegistered(disco.service_type))
    => /\ disco.raised = None
       /\ disco.resport.mode = TCP_SEND
       /\ disco.resport.target_port =
             AddressStr(FirstRegistered(disco.service_type).service_tcp_port)

\* C14: connect_to_service for a type the registry does not have (the reply
\* is an error) returns normally, with no port, and raises nothing.
C14_ConnectErrorReturnsNoPort ==
    (/\ disco.op = "connect_to_service"
     /\ Registered(disco.service_type) = {})
    => /\ disco.raised = None
       /\ disco.resport = NoPort

\* ------------------------------------------------------ registry entries
\* The arguments make_service_data is called with; an argument left at its
\* default is None (NoAddress for the address string).
MakeTypes == {None} \cup RegisteredTypes
MakeReferences == {None} \cup References
MakeAddresses == {NoAddress} \cup LocalAddresses

\* A caller builds the services data of a discovery server, one
\* make_service_data call at a time; a call that raises adds nothing.
MakeServiceData(service_type, service_reference, service_tcp_port, service_id) ==
    LET r == make_service_data(service_type, service_reference,
                               service_tcp_port, service_id)
    IN  /\ Len(services_data) < MaxServices
        /\ disco' = [op |-> "make_service_data",
                     service_type |-> service_type,
                     service_reference |-> service_reference,
                     service_tcp_port |-> service_tcp_port,
                     service_id |-> service_id,
                     raised |-> r.raised]
        /\ services_data' = IF r.raised = None
                            THEN Append(services_data, r.dico)
                            ELSE services_data

InitRegistry == IdleDisco /\ IdleService /\ IdlePorts /\ IdleThreads /\ IdleLock

NextRegistry ==
    \E t \in MakeTypes, r \in MakeReferences, a \in MakeAddresses, i \in ServiceIds :
        MakeServiceData(t, r, a, i) /\ UNCHANGED <<pqvars, svcvars, portvars, thrvars, lockvars>>

\* The services data of a discovery server while it is built.
SpecRegistry == InitRegistry /\ [][NextRegistry]_vars

\* whether a registry entry holds a local reference / a transport address.
HasReference(d) == "service_reference" \in DOMAIN d /\ d.service_reference # None
HasAddress(d) == "service_tcp_port" \in DOMAIN d /\ d.service_tcp_port # NoAddress

\* C28: every registry entry returned by make_service_data carries a service
\* type and exactly one locator: it never holds both a local reference and a
\* transport address, and a call that supplies neither locator does not
\* yield an entry.
C28_EntryHasExactlyOneLocator ==
    /\ \A k \in 1..Len(services_data) :
          LET d == services_data[k]
          IN  /\ "service_type" \in DOMAIN d /\ d.service_type # None
              /\ HasReference(d) # HasAddress(d)
    /\ ( /\ disco.op = "make_service_data"
         /\ disco.service_reference = None
         /\ disco.service_tcp_port = NoAddress )
       => disco.raised # None

\* ------------------------------------------------ ExceptionThread actions
\* What a run body (run_with_exception) ends with: it returns (None) or it
\* raises: the NotImplementedError of the body that was not overridden, an
\* Exception, a BaseException, an exception whose class is not built from
\* one message.
BodyOutcomes ==
    {None, "NotImplementedError", "TypeError", "StopDummyServiceException",
     "UnicodeDecodeError"}

\* Thread.start
ThreadStart(t) ==
    /\ workers[t].state = "created"
    /\ workers' = [workers EXCEPT ![t].state = "running"]

\* ExceptionThread.run: the run body ends with x and the thread ends.
ThreadRun(t, x) ==
    /\ workers[t].state = "running"
    /\ workers' = [workers EXCEPT ![t].state = "stopped", ![t].body = x,
                                  ![t].exc = run(x)]

\* ExceptionThread.join; Thread.join returns once the thread has ended.
ThreadJoin(t) ==
    /\ workers[t].state = "stopped"
    /\ workers' = [workers EXCEPT ![t].joined = join(workers[t].exc)]

InitThread ==
    /\ IdleThreads
    /\ IdleService /\ IdlePorts /\ IdleDisco /\ IdleLock

NextThread ==
    \/ \E t \in WorkerIds : ThreadStart(t)
          /\ UNCHANGED <<pqvars, svcvars, portvars, discovars, lockvars>>
    \/ \E t \in WorkerIds, x \in BodyOutcomes : ThreadRun(t, x)
          /\ UNCHANGED <<pqvars, svcvars, portvars, discovars, lockvars>>
    \/ \E t \in WorkerIds : ThreadJoin(t)
          /\ UNCHANGED <<pqvars, svcvars, portvars, discovars, lockvars>>

\* ExceptionThreads with any run body, started, run and joined.
SpecThread == InitThread /\ [][NextThread]_vars

\* C18: a join() made after the worker has ended raises exactly when the run
\* body raised: no failure of the body is dropped, and join raises nothing
\* when the body returned.
C18_JoinRaisesIffBodyFailed ==
    \A t \in WorkerIds :
        workers[t].joined # "no" =>
            (workers[t].joined # None <=> workers[t].body # None)

\* ------------------------------------------- queue operations, step by step
\* The operations of PriorityQueue.
QueueOps == {"push", "pop", "empty", "cancel", "contains", "get"}

\* the calls a thread makes: the operation, the event of a push (0
\* otherwise) and the key of cancel, contains and get.
Calls ==
    [op : {"push"}, event : EventIds, key : {NoKey}]
        \cup [op : {"pop", "empty"}, event : {0}, key : {NoKey}]
        \cup [op : QueueOps \ {"push", "pop", "empty"}, event : {0}, key : Keys]

\* thread t is inside the body of an operation (inside `with self._pq_lock`).
InBody(t) == frame[t].pc = "body"

\* thread t goes into the body of call c: __enter__ of the lock has returned.
\* An event is pushed once, events in the order of their construction.
Entered(t, c) ==
    /\ frame[t].pc = "idle"
    /\ c.op = "push" =>
          /\ where[c.event] = "none"
          /\ \A f \in EventIds : f < c.event => where[f] # "none"
          /\ \A u \in Threads : ~(frame[u].op = "push" /\ frame[u].event = c.event)
    /\ pq_lock' = t
    /\ frame' = [frame EXCEPT ![t] =
                    [pc |-> "body", op |-> c.op, event |-> c.event,
                     key |-> c.key, i |-> 0]]
    /\ UNCHANGED <<pqvars, returned>>

\* a `with` that goes into the body whoever holds the lock.
Enter_unlocked(t, c) == Entered(t, c)

\* `with self._pq_lock:` of every operation: acquire blocks while another
\* thread holds the lock.
Enter(t, c) == pq_lock = None /\ Entered(t, c)

\* the end of the `with` block: the lock is released, the operation returns.
Leave(t) ==
    /\ pq_lock' = None
    /\ frame' = [frame EXCEPT ![t] = IdleFrame]

\* push: heapq.heappush(self._pq, event)
PushBody(t) ==
    /\ InBody(t) /\ frame[t].op = "push"
    /\ pq' = heappush(pq, frame[t].event)
    /\ where' = [where EXCEPT ![frame[t].event] = "queued"]
    /\ Leave(t)
    /\ UNCHANGED <<date_time, cancelled, kind, ret, lastPop, late, returned>>

\* pop: one heappop and the test of `while event.cancelled` (i counts the
\* heappops made); IndexError on the empty list leaves the block.
PopBody(t) ==
    /\ InBody(t) /\ frame[t].op = "pop"
    /\ IF pq = <<>>
       THEN /\ Leave(t)
            /\ UNCHANGED <<pq, where, returned>>
       ELSE LET r == heappop(pq)
            IN  /\ pq' = r.heap
                /\ where' = [where EXCEPT ![r.item] = "popped"]
                /\ IF cancelled[r.item]
                   THEN /\ frame' = [frame EXCEPT ![t].i = @ + 1]
                        /\ UNCHANGED <<pq_lock, returned>>
                   ELSE /\ returned' = [returned EXCEPT ![r.item] = @ + 1]
                        /\ Leave(t)
    /\ UNCHANGED <<date_time, cancelled, kind, ret, lastPop, late>>

\* empty, cancel, contains, get: one iteration of `for e in self._pq`, the
\* list iterator being at index i.
ScanBody(t) ==
    /\ InBody(t) /\ frame[t].op \in {"empty", "cancel", "contains", "get"}
    /\ LET j == frame[t].i + 1
       IN  IF j > Len(pq)
           THEN /\ Leave(t)
                /\ UNCHANGED cancelled
           ELSE CASE frame[t].op = "empty" ->
                        /\ IF ~cancelled[pq[j]] THEN Leave(t)
                           ELSE /\ frame' = [frame EXCEPT ![t].i = j]
                                /\ UNCHANGED pq_lock
                        /\ UNCHANGED cancelled
                  [] frame[t].op = "contains" ->
                        /\ IF Holds(frame[t].key, pq[j]) THEN Leave(t)
                           ELSE /\ frame' = [frame EXCEPT ![t].i = j]
                                /\ UNCHANGED pq_lock
                        /\ UNCHANGED cancelled
                  [] frame[t].op = "cancel" ->
                        /\ cancelled' =
                              [cancelled EXCEPT ![pq[j]] =
                                  @ \/ Holds(frame[t].key, pq[j])]
                        /\ frame' = [frame EXCEPT ![t].i = j]
                        /\ UNCHANGED pq_lock
                  [] OTHER ->
                        /\ frame' = [frame EXCEPT ![t].i = j]
                        /\ UNCHANGED <<pq_lock, cancelled>>
    /\ UNCHANGED <<date_time, kind, pq, where, ret, lastPop, late, returned>>

InitLock ==
    /\ InitQueue
    /\ kind = [e \in EventIds |-> "DummyEvent"]
    /\ InitService("ASYNC")
    /\ IdlePorts /\ IdleDisco /\ IdleThreads
    /\ IdleLock

NextLock ==
    \/ \E t \in Threads, c \in Calls : Enter(t, c)
          /\ UNCHANGED <<svcvars, portvars, discovars, thrvars>>
    \/ \E t \in Threads : PushBody(t)
          /\ UNCHANGED <<svcvars, portvars, discovars, thrvars>>
    \/ \E t \in Threads : PopBody(t)
          /\ UNCHANGED <<svcvars, portvars, discovars, thrvars>>
    \/ \E t \in Threads : ScanBody(t)
          /\ UNCHANGED <<svcvars, portvars, discovars, thrvars>>

\* One PriorityQueue called by two threads, one statement of a body at a time.
SpecLock == InitLock /\ [][NextLock]_vars

\* C20: at most one thread is inside the body of a queue operation; while a
\* thread is inside a body no other thread changes the list or a cancelled
\* flag; the list holds every pushed event that no pop has taken out, once;
\* and no event is returned by pop more than the once it was pushed.
C20_QueueOpsAtomic ==
    [][/\ Cardinality({t \in Threads : InBody(t)'}) <= 1
       /\ \A t \in Threads :
             (InBody(t) /\ frame'[t] = frame[t]) =>
                 (pq' = pq /\ cancelled' = cancelled)
       /\ \A e \in EventIds : where'[e] = "queued" <=> e \in Range(pq')
       /\ Len(pq') = Cardinality(Range(pq'))
       /\ \A e \in EventIds :
             /\ returned'[e] <= 1
             /\ returned'[e] = 1 => where'[e] = "popped"]_vars

\* a thread is in the middle of a cancel scan, past an event it cancelled,
\* with events left to visit, after a pop has returned an event.
C20_Witness ==
    \E t \in Threads :
        /\ InBody(t) /\ frame[t].op = "cancel"
        /\ frame[t].i >= 1 /\ frame[t].i < Len(pq)
        /\ cancelled[pq[frame[t].i]]
        /\ \E e \in EventIds : returned[e] = 1
====
